---- MODULE Spec2Model ----
(***************************************************************************)
(* Session and transcript lifecycle of the Healthcare Companion script     *)
(* (src/healthcare.py).  The script runs top to bottom once per run; the   *)
(* values kept in st.session_state survive from run to run.  A run is      *)
(* started by the host with its input (a click on "Clear Chat History",    *)
(* whose callback is reset_chat, or the text of st.chat_input).  A run     *)
(* that is still replying is abandoned at its next st.* call when the      *)
(* host starts another run; the exception that abandons it is not an       *)
(* Exception, so the handler of line 127 does not catch it.                *)
(*                                                                         *)
(* Texts are sequences of tokens, so that concatenation is \o.             *)
(***************************************************************************)
EXTENDS Integers, Sequences, FiniteSets, TLC

\* ---- bounds of the model ----
MaxMessages == 5
MaxChats == 3
MaxChunks == 2

\* ---- texts ----
Prompts == {<<"p1">>, <<"p2">>}
NoPrompt == <<>>
ChunkTexts == {<<"a">>, <<"b">>}
Errors == {"e1"}
CURSOR == "CURSOR"
WELCOME_TEXT == <<"WELCOME">>
INIT_FAILURE_TEXT == <<"INIT_FAILED">>
ErrorText(e) == <<"ERROR_DETAILS", e>>

Message(role, content) == [role |-> role, content |-> content]
WelcomeMessage == Message("assistant", WELCOME_TEXT)

NoClient == 0
NoChat == [id |-> 0, client |-> 0, history |-> <<>>]

VARIABLES
    hasKey,          \* "GEMINI_API_KEY" in st.secrets
    session_keys,    \* the keys present in st.session_state
    gemini_client,   \* st.session_state['gemini_client']
    gemini_chat,     \* st.session_state['gemini_chat']
    messages,        \* st.session_state.messages
    pc,              \* position of the run in progress, "idle" when none
    prompt,          \* the text st.chat_input returned to this run
    full_response,   \* the accumulator of the turn
    placeholder,     \* what message_placeholder shows
    fault,           \* the uncaught exception that ended the last run
    resetResult,     \* outcome of the last reset_chat call of this run
    clientErr,       \* failure reported by the last get_gemini_client call
    clientCalls,     \* get_gemini_client calls made by this run
    input,           \* the text the host handed to this run
    received,        \* the chunk texts the stream delivered in this turn
    outcome,         \* how the turn ended: completed, failed, no_session
    sends,           \* send_message_stream calls made in this turn
    sentOn,          \* the chat the turn's send was made on
    turnBase,        \* the Transcript when the turn began
    msgChat,         \* per Transcript entry, the chat active when it was added
    clientsBuilt,    \* genai.Client constructions that succeeded
    chatsCreated,    \* client.chats.create calls that succeeded
    abandonedAt      \* where the run before this one was abandoned, else "idle"

vars == <<hasKey, session_keys, gemini_client, gemini_chat, messages, pc,
          prompt, full_response, placeholder, fault, resetResult, clientErr,
          clientCalls, input, received, outcome, sends, sentOn, turnBase,
          msgChat, clientsBuilt, chatsCreated, abandonedAt>>

\* The part of the state that reset_chat and get_gemini_client work on.
Store == [keys |-> session_keys, client |-> gemini_client, chat |-> gemini_chat,
          messages |-> messages, msgChat |-> msgChat,
          built |-> clientsBuilt, created |-> chatsCreated]

\* ---- get_gemini_client (lines 25-42) ----
\* variant: the check of line 31 left out
get_gemini_client_NoKeyCheck(s, constructOK) ==
    IF "gemini_client" \in s.keys
    THEN [st |-> s, ret |-> s.client, err |-> "none"]
    ELSE IF constructOK
    THEN [st |-> [s EXCEPT !.keys = @ \cup {"gemini_client"},
                           !.client = s.built + 1,
                           !.built = @ + 1],
          ret |-> s.built + 1, err |-> "none"]
    ELSE [st |-> s, ret |-> NoClient, err |-> "ClientInitFailure"]

\* variant: the lookup of lines 28-29 left out
get_gemini_client_NoCache(s, constructOK) ==
    IF ~hasKey
    THEN [st |-> s, ret |-> NoClient, err |-> "MissingCredential"]
    ELSE IF constructOK
    THEN [st |-> [s EXCEPT !.keys = @ \cup {"gemini_client"},
                           !.client = s.built + 1,
                           !.built = @ + 1],
          ret |-> s.built + 1, err |-> "none"]
    ELSE [st |-> s, ret |-> NoClient, err |-> "ClientInitFailure"]

\* ret is the client, NoClient for None; constructOK tells whether
\* genai.Client(...) at line 37 returns or raises
get_gemini_client(s, constructOK) ==
    IF "gemini_client" \in s.keys
    THEN [st |-> s, ret |-> s.client, err |-> "none"]
    ELSE IF ~hasKey
    THEN [st |-> s, ret |-> NoClient, err |-> "MissingCredential"]
    ELSE IF constructOK
    THEN [st |-> [s EXCEPT !.keys = @ \cup {"gemini_client"},
                           !.client = s.built + 1,
                           !.built = @ + 1],
          ret |-> s.built + 1, err |-> "none"]
    ELSE [st |-> s, ret |-> NoClient, err |-> "ClientInitFailure"]

\* ---- reset_chat (lines 44-65), up to and without st.rerun() ----

\* variant: the new chat is seeded with the turns of the old one
NewChat_KeepsHistory(s, client) ==
    [id |-> s.created + 1, client |-> client, history |-> s.chat.history]

\* line 58: a chat made from MODEL_NAME and SYSTEM_INSTRUCTION only
NewChat(s, client) == [id |-> s.created + 1, client |-> client, history |-> <<>>]

\* variant: the welcome entry is appended to the old Transcript
Installed_AppendsWelcome(s, client) ==
    [s EXCEPT !.keys = @ \cup {"gemini_chat", "messages"},
              !.chat = NewChat(s, client),
              !.created = @ + 1,
              !.messages = @ \o <<WelcomeMessage>>,
              !.msgChat = @ \o <<s.created + 1>>]

\* lines 58-63: store the new chat, replace the Transcript
Installed(s, client) ==
    [s EXCEPT !.keys = @ \cup {"gemini_chat", "messages"},
              !.chat = NewChat(s, client),
              !.created = @ + 1,
              !.messages = <<WelcomeMessage>>,
              !.msgChat = <<s.created + 1>>]

\* variant: the welcome Transcript is stored before the chat is created
reset_chat_TranscriptFirst(s, constructOK, createOK) ==
    LET g == get_gemini_client(s, constructOK) IN
    IF g.ret = NoClient
    THEN [st |-> g.st, result |-> "no_client", err |-> g.err]
    ELSE IF ~createOK
    THEN [st |-> [g.st EXCEPT !.keys = @ \cup {"messages"},
                              !.messages = <<WelcomeMessage>>,
                              !.msgChat = <<g.st.chat.id>>],
          result |-> "create_raised", err |-> g.err]
    ELSE [st |-> Installed(g.st, g.ret), result |-> "ok", err |-> g.err]

\* variant: the welcome Transcript is set before the client is checked
reset_chat_WelcomeOnFailure(s, constructOK, createOK) ==
    LET g == get_gemini_client(s, constructOK) IN
    IF g.ret = NoClient
    THEN [st |-> [g.st EXCEPT !.keys = @ \cup {"messages"},
                              !.messages = <<WelcomeMessage>>,
                              !.msgChat = <<0>>],
          result |-> "no_client", err |-> g.err]
    ELSE IF ~createOK
    THEN [st |-> g.st, result |-> "create_raised", err |-> g.err]
    ELSE [st |-> Installed(g.st, g.ret), result |-> "ok", err |-> g.err]

\* variant: a chat that is already stored is kept
reset_chat_KeepsChat(s, constructOK, createOK) ==
    LET g == get_gemini_client(s, constructOK) IN
    IF g.ret = NoClient
    THEN [st |-> g.st, result |-> "no_client", err |-> g.err]
    ELSE IF ~createOK
    THEN [st |-> g.st, result |-> "create_raised", err |-> g.err]
    ELSE IF "gemini_chat" \in g.st.keys
    THEN [st |-> [g.st EXCEPT !.messages = <<WelcomeMessage>>,
                              !.msgChat = <<g.st.chat.id>>],
          result |-> "ok", err |-> g.err]
    ELSE [st |-> Installed(g.st, g.ret), result |-> "ok", err |-> g.err]

\* result: "no_client" (line 50), "create_raised" (line 58 raises), "ok"
reset_chat(s, constructOK, createOK) ==
    LET g == get_gemini_client(s, constructOK) IN
    IF g.ret = NoClient
    THEN [st |-> g.st, result |-> "no_client", err |-> g.err]
    ELSE IF ~createOK
    THEN [st |-> g.st, result |-> "create_raised", err |-> g.err]
    ELSE [st |-> Installed(g.st, g.ret), result |-> "ok", err |-> g.err]

\* ---- one run of the script (lines 69-109) ----

\* variant: the startup path calls reset_chat on every run
NeedsInit_Always(s) == TRUE

\* line 74: the startup path calls reset_chat only when no chat is stored
NeedsInit(s) == "gemini_chat" \notin s.keys

\* line 99: reading st.session_state.messages raises when it was never set
CanDisplay(s) == "messages" \in s.keys

\* line 107
AppendUser(s, p) ==
    [s EXCEPT !.messages = Append(@, Message("user", p)),
              !.msgChat = Append(@, s.chat.id)]

Ended(s, f, res, err, calls) ==
    [st |-> s, fault |-> f, result |-> res, err |-> err, calls |-> calls,
     pc |-> "idle", prompt |-> NoPrompt]

\* The body from line 69 on, entered with the store s and the text p of
\* st.chat_input; res, err and calls report the callback's reset_chat.
ScriptBody(s, p, res, err, calls, constructOK, createOK) ==
    LET r == IF NeedsInit(s) THEN reset_chat(s, constructOK, createOK)
             ELSE [st |-> s, result |-> res, err |-> err]
        n == IF NeedsInit(s) THEN calls + 1 ELSE calls
    IN  IF NeedsInit(s) /\ r.result = "create_raised"
        THEN Ended(r.st, "ChatCreateError", r.result, r.err, n)
        ELSE IF NeedsInit(s) /\ r.result = "ok"
        \* line 65: st.rerun() restarts the script without the input; the
        \* rerun finds the chat, shows the Transcript and ends
        THEN Ended(r.st, "none", r.result, r.err, n)
        ELSE IF ~CanDisplay(r.st)
        THEN Ended(r.st, "AttributeError", r.result, r.err, n)
        ELSE IF p = NoPrompt
        THEN Ended(r.st, "none", r.result, r.err, n)
        ELSE [st |-> AppendUser(r.st, p), fault |-> "none", result |-> r.result,
              err |-> r.err, calls |-> n, pc |-> "user_appended", prompt |-> p]

\* A run: the callback of the button first (line 91; st.rerun() inside a
\* callback does nothing), then the body.
ScriptRun(s, clicked, p, ok1, cr1, ok2, cr2) ==
    LET c == IF clicked THEN reset_chat(s, ok1, cr1)
             ELSE [st |-> s, result |-> "none", err |-> "none"]
        n == IF clicked THEN 1 ELSE 0
    IN  IF c.result = "create_raised"
        THEN Ended(c.st, "ChatCreateError", c.result, c.err, n)
        ELSE ScriptBody(c.st, IF clicked THEN NoPrompt ELSE p,
                        c.result, c.err, n, ok2, cr2)

Busy == {"user_appended", "streaming", "rendered"}

StartRun(clicked, p) ==
    \E ok1, cr1 \in (IF clicked THEN BOOLEAN ELSE {TRUE}),
       ok2, cr2 \in (IF NeedsInit(Store) THEN BOOLEAN ELSE {TRUE}) :
        LET r == ScriptRun(Store, clicked, p, ok1, cr1, ok2, cr2) IN
        /\ r.st.created <= MaxChats
        /\ Len(r.st.messages) < MaxMessages \/ r.pc = "idle"
        /\ session_keys' = r.st.keys
        /\ gemini_client' = r.st.client
        /\ gemini_chat' = r.st.chat
        /\ messages' = r.st.messages
        /\ msgChat' = r.st.msgChat
        /\ clientsBuilt' = r.st.built
        /\ chatsCreated' = r.st.created
        /\ pc' = r.pc
        /\ prompt' = r.prompt
        /\ fault' = r.fault
        /\ resetResult' = r.result
        /\ clientErr' = r.err
        /\ clientCalls' = r.calls
        /\ input' = IF clicked THEN NoPrompt ELSE p
        /\ turnBase' = IF r.pc = "user_appended" THEN messages ELSE <<>>
        /\ full_response' = <<>>
        /\ placeholder' = <<>>
        /\ received' = <<>>
        /\ outcome' = "none"
        /\ sends' = 0
        /\ sentOn' = 0
        /\ abandonedAt' = pc
        /\ UNCHANGED hasKey

\* ---- runs the host starts while no run is in progress ----
\* The input of a run is the host's: a run may be given a prompt whatever
\* the script's state; the script reads it at line 104, when it gets there.
LoadPage == pc = "idle" /\ StartRun(FALSE, NoPrompt)

ClickClear == pc = "idle" /\ StartRun(TRUE, NoPrompt)

SubmitPrompt == pc = "idle" /\ \E p \in Prompts : StartRun(FALSE, p)

\* ---- runs the host starts while a run is still replying ----
\* The run in progress stops at its next st.* call (lines 108-129) and
\* never reaches line 136; the new run starts from the state it left.
ClickClearWhileReplying == pc \in Busy /\ StartRun(TRUE, NoPrompt)

SubmitWhileReplying == pc \in Busy /\ \E p \in Prompts : StartRun(FALSE, p)

\* ---- the reply of a turn (lines 112-136) ----
\* variant: the chunk replaces the accumulator (= in place of +=)
Accumulate_Overwrites(acc, text) == text

\* variant: the chunk is put in front of the accumulator
Accumulate_Prepends(acc, text) == text \o acc

\* line 122
Accumulate(acc, text) == acc \o text

\* line 123: the accumulator followed by the in-progress cursor
InProgress(acc) == acc \o <<CURSOR>>

TurnFrame == UNCHANGED <<hasKey, session_keys, gemini_client, messages, prompt,
                         fault, resetResult, clientErr, clientCalls, input,
                         turnBase, msgChat, clientsBuilt, chatsCreated,
                         abandonedAt>>

\* variant: the error text is added to the partial accumulation
Except_KeepsPartial(e) ==
    /\ full_response' = full_response \o ErrorText(e)
    /\ placeholder' = full_response \o ErrorText(e)
    /\ outcome' = "failed"
    /\ pc' = "rendered"

\* lines 127-129: the handler replaces the accumulator by the error text
Except(e) ==
    /\ full_response' = ErrorText(e)
    /\ placeholder' = ErrorText(e)
    /\ outcome' = "failed"
    /\ pc' = "rendered"

\* variant: every message is sent on a chat created for it
SendMessage_NewChatPerTurn ==
    /\ pc = "user_appended"
    /\ "gemini_chat" \in session_keys
    /\ chatsCreated < MaxChats
    /\ gemini_chat' = [id |-> chatsCreated + 1, client |-> gemini_client,
                       history |-> <<prompt>>]
    /\ chatsCreated' = chatsCreated + 1
    /\ sends' = sends + 1
    /\ sentOn' = chatsCreated + 1
    /\ pc' = "streaming"
    /\ UNCHANGED <<full_response, placeholder, outcome, received>>
    /\ UNCHANGED <<hasKey, session_keys, gemini_client, messages, prompt,
                   fault, resetResult, clientErr, clientCalls, input,
                   turnBase, msgChat, clientsBuilt, abandonedAt>>

\* lines 116-119 and 131-133: send the prompt on the stored chat, or report
\* that there is none
SendMessage ==
    /\ pc = "user_appended"
    /\ IF "gemini_chat" \in session_keys
       THEN /\ gemini_chat' = [gemini_chat EXCEPT !.history = Append(@, prompt)]
            /\ sends' = sends + 1
            /\ sentOn' = gemini_chat.id
            /\ pc' = "streaming"
            /\ UNCHANGED <<full_response, placeholder, outcome>>
       ELSE /\ full_response' = INIT_FAILURE_TEXT
            /\ placeholder' = INIT_FAILURE_TEXT
            /\ outcome' = "no_session"
            /\ pc' = "rendered"
            /\ UNCHANGED <<gemini_chat, sends, sentOn>>
    /\ UNCHANGED received
    /\ TurnFrame

\* variant: a send that raised is tried again
SendRaises_Retries ==
    /\ pc = "user_appended"
    /\ "gemini_chat" \in session_keys
    /\ sends' = sends + 1
    /\ sentOn' = gemini_chat.id
    /\ UNCHANGED <<gemini_chat, pc, full_response, placeholder, outcome, received>>
    /\ TurnFrame

\* line 119 raises: the chat may or may not have taken the prompt in
SendRaises ==
    /\ pc = "user_appended"
    /\ "gemini_chat" \in session_keys
    /\ \E e \in Errors, taken \in BOOLEAN :
        /\ gemini_chat' = IF taken
                          THEN [gemini_chat EXCEPT !.history = Append(@, prompt)]
                          ELSE gemini_chat
        /\ Except(e)
    /\ sends' = sends + 1
    /\ sentOn' = gemini_chat.id
    /\ UNCHANGED received
    /\ TurnFrame

\* lines 121-123: the stream delivers its next chunk
ChunkArrives ==
    /\ pc = "streaming"
    /\ Len(received) < MaxChunks
    /\ \E c \in ChunkTexts :
        /\ full_response' = Accumulate(full_response, c)
        /\ placeholder' = InProgress(Accumulate(full_response, c))
        /\ received' = Append(received, c)
    /\ UNCHANGED <<gemini_chat, pc, outcome, sends, sentOn>>
    /\ TurnFrame

\* line 125: the stream is exhausted
StreamEnds ==
    /\ pc = "streaming"
    /\ placeholder' = full_response
    /\ outcome' = "completed"
    /\ pc' = "rendered"
    /\ UNCHANGED <<gemini_chat, full_response, received, sends, sentOn>>
    /\ TurnFrame

\* variant: the handler also forgets the stored chat when the stream raises
StreamRaises_DropsChat ==
    /\ pc = "streaming"
    /\ \E e \in Errors : Except(e)
    /\ gemini_chat' = NoChat
    /\ session_keys' = session_keys \ {"gemini_chat"}
    /\ UNCHANGED <<received, sends, sentOn>>
    /\ UNCHANGED <<hasKey, gemini_client, messages, prompt, fault, resetResult,
                   clientErr, clientCalls, input, turnBase, msgChat,
                   clientsBuilt, chatsCreated, abandonedAt>>

\* the stream raises instead of delivering its next chunk or ending
StreamRaises ==
    /\ pc = "streaming"
    /\ \E e \in Errors : Except(e)
    /\ UNCHANGED <<gemini_chat, received, sends, sentOn>>
    /\ TurnFrame

\* variant: the reply is written over the last entry
Seal_OverwritesLast ==
    /\ pc = "rendered"
    /\ messages' = [messages EXCEPT ![Len(messages)] =
                        Message("assistant", full_response)]
    /\ msgChat' = msgChat
    /\ pc' = "idle"
    /\ UNCHANGED <<hasKey, session_keys, gemini_client, gemini_chat, prompt,
                   full_response, placeholder, fault, resetResult, clientErr,
                   clientCalls, input, received, outcome, sends, sentOn,
                   turnBase, clientsBuilt, chatsCreated, abandonedAt>>

\* line 136
Seal ==
    /\ pc = "rendered"
    /\ messages' = Append(messages, Message("assistant", full_response))
    /\ msgChat' = Append(msgChat, gemini_chat.id)
    /\ pc' = "idle"
    /\ UNCHANGED <<hasKey, session_keys, gemini_client, gemini_chat, prompt,
                   full_response, placeholder, fault, resetResult, clientErr,
                   clientCalls, input, received, outcome, sends, sentOn,
                   turnBase, clientsBuilt, chatsCreated, abandonedAt>>

\* ---- the state before the first run: an empty st.session_state ----
Init ==
    /\ hasKey \in BOOLEAN
    /\ session_keys = {}
    /\ gemini_client = NoClient
    /\ gemini_chat = NoChat
    /\ messages = <<>>
    /\ pc = "idle"
    /\ prompt = NoPrompt
    /\ full_response = <<>>
    /\ placeholder = <<>>
    /\ fault = "none"
    /\ resetResult = "none"
    /\ clientErr = "none"
    /\ clientCalls = 0
    /\ input = NoPrompt
    /\ received = <<>>
    /\ outcome = "none"
    /\ sends = 0
    /\ sentOn = 0
    /\ turnBase = <<>>
    /\ msgChat = <<>>
    /\ clientsBuilt = 0
    /\ chatsCreated = 0
    /\ abandonedAt = "idle"

Next ==
    \/ LoadPage
    \/ ClickClear
    \/ SubmitPrompt
    \/ ClickClearWhileReplying
    \/ SubmitWhileReplying
    \/ SendMessage
    \/ SendRaises
    \/ ChunkArrives
    \/ StreamEnds
    \/ StreamRaises
    \/ Seal

Spec == Init /\ [][Next]_vars

\* ---- helpers of the properties ----
HasChat == "gemini_chat" \in session_keys

HasTranscript == "messages" \in session_keys

RECURSIVE Flatten(_)
Flatten(chunks) ==
    IF chunks = <<>> THEN <<>> ELSE Head(chunks) \o Flatten(Tail(chunks))

Tokens(text) == {text[i] : i \in 1..Len(text)}

RECURSIVE UserTexts(_)
UserTexts(ms) ==
    IF ms = <<>> THEN <<>>
    ELSE IF Head(ms).role = "user"
    THEN <<Head(ms).content>> \o UserTexts(Tail(ms))
    ELSE UserTexts(Tail(ms))

RECURSIVE IsSubseq(_, _)
IsSubseq(a, b) ==
    IF a = <<>> THEN TRUE
    ELSE IF b = <<>> THEN FALSE
    ELSE IF Head(a) = Head(b) THEN IsSubseq(Tail(a), Tail(b))
    ELSE IsSubseq(a, Tail(b))

TurnDone == pc = "idle" /\ outcome # "none"

\* ---- properties ----

\* C1: whenever reset_chat succeeds, the Transcript is exactly the one
\* assistant welcome entry and a ChatSession is stored.
C1_ResetInstallsWelcome ==
    resetResult = "ok" =>
        /\ HasChat /\ gemini_chat.id # 0
        /\ HasTranscript
        /\ Len(messages) = 1
        /\ messages[1].role = "assistant"
        /\ messages[1].content = WELCOME_TEXT

C1_Witness ==
    /\ resetResult = "ok"
    /\ chatsCreated = 2
    /\ messages = <<WelcomeMessage>>

\* C2: a reset_chat that fails for lack of a client leaves the stored chat,
\* the Transcript and the keys of the session state as they were.
C2_FailedResetChangesNothing ==
    [][resetResult' = "no_client" =>
          /\ session_keys' = session_keys
          /\ gemini_chat' = gemini_chat
          /\ messages' = messages]_vars

C2_Witness ==
    /\ resetResult = "no_client"
    /\ clientErr = "ClientInitFailure"
    /\ ~HasChat
    /\ ~HasTranscript

\* C3: when a turn whose stream completed is sealed, the assistant entry
\* appended is the concatenation of the chunks in the order received,
\* without the in-progress cursor.
C3_SealedIsConcatenation ==
    (TurnDone /\ outcome = "completed") =>
        /\ messages[Len(messages)] = Message("assistant", Flatten(received))
        /\ CURSOR \notin Tokens(messages[Len(messages)].content)

C3_Witness ==
    /\ TurnDone /\ outcome = "completed"
    /\ Len(received) = 2
    /\ received[1] # received[2]

C5_NoSessionTurnIsAnswered ==
    (pc = "idle" /\ input # NoPrompt /\ ~HasChat) =>
        /\ Len(messages) >= 2
        /\ messages[Len(messages) - 1] = Message("user", input)
        /\ messages[Len(messages)] = Message("assistant", INIT_FAILURE_TEXT)
        /\ sends = 0

\* C6: with the credential missing, no run (page load, Transcript display,
\* user message) ends on an uncaught exception.
C6_MissingCredentialNoFault ==
    ~hasKey => fault = "none"

\* C7: with the credential missing, every get_gemini_client call reports
\* MissingCredential and no client is ever stored.
C7_MissingCredentialNeverStored ==
    ~hasKey =>
        /\ "gemini_client" \notin session_keys
        /\ gemini_client = NoClient
        /\ clientsBuilt = 0
        /\ clientCalls > 0 =>
              (clientErr = "MissingCredential" /\ resetResult = "no_client")

C7_Witness ==
    /\ ~hasKey
    /\ clientCalls = 2
    /\ clientErr = "MissingCredential"
    /\ input = NoPrompt

\* C8: the client is constructed at most once, the stored client is that
\* one, and the stored chat is bound to it.
C8_ClientBuiltOnce ==
    /\ clientsBuilt <= 1
    /\ "gemini_client" \in session_keys =>
          (clientsBuilt = 1 /\ gemini_client = 1)
    /\ HasChat =>
          ("gemini_client" \in session_keys /\ gemini_chat.client = gemini_client)

C8_Witness ==
    /\ chatsCreated = 2
    /\ clientsBuilt = 1
    /\ HasChat
    /\ gemini_chat.id = 2
    /\ gemini_chat.client = gemini_client

\* C9: every Transcript entry was added while the stored chat was the
\* active one, and the prompts the stored chat has taken in are user
\* entries of the Transcript, in order; also after a reset that was
\* requested while a turn was streaming.
C9_TranscriptMatchesChat ==
    /\ \A i \in 1..Len(messages) : msgChat[i] = gemini_chat.id
    /\ Len(msgChat) = Len(messages)
    /\ IsSubseq(gemini_chat.history, UserTexts(messages))

C9_Witness ==
    /\ abandonedAt = "streaming"
    /\ resetResult = "ok"
    /\ gemini_chat.id = 2
    /\ messages = <<WelcomeMessage>>

\* C10: a successful reset stores a newly created chat that holds no prior
\* turn, and a message is only ever sent on the newest chat.
C10_ResetStartsFreshChat ==
    /\ HasChat => gemini_chat.id = chatsCreated
    /\ resetResult = "ok" => (HasChat /\ gemini_chat.history = <<>>)
    /\ sends > 0 => sentOn = chatsCreated

C10_Witness ==
    /\ pc = "streaming"
    /\ sentOn = 2
    /\ gemini_chat.id = 2
    /\ gemini_chat.history = <<prompt>>


\* ---- more helpers of the properties ----
IsPrefix(a, b) == Len(a) <= Len(b) /\ SubSeq(b, 1, Len(a)) = a

ErrorTexts == {ErrorText(e) : e \in Errors}

\* the turn in progress, or just sealed, directly follows a failed turn
FollowsFailedTurn ==
    /\ turnBase # <<>>
    /\ turnBase[Len(turnBase)].role = "assistant"
    /\ turnBase[Len(turnBase)].content \in ErrorTexts

\* C11: a failed turn keeps the chat it was sent on and the entries that
\* were there before it, and the turn after a failed turn is sent on that
\* same chat and sealed as the concatenation of its own chunks.
C11_FailureEndsOnlyItsTurn ==
    /\ outcome = "failed" =>
          /\ HasChat
          /\ sentOn = gemini_chat.id
          /\ IsPrefix(turnBase, messages)
    /\ FollowsFailedTurn =>
          /\ HasChat
          /\ msgChat[Len(turnBase)] = gemini_chat.id
          /\ IsPrefix(turnBase, messages)
          /\ sends > 0 => sentOn = gemini_chat.id
          /\ pc = "streaming" => gemini_chat.history[Len(gemini_chat.history)] = prompt
          /\ (TurnDone /\ outcome = "completed") =>
                messages = turnBase \o <<Message("user", prompt),
                                         Message("assistant", Flatten(received))>>

C11_Witness ==
    /\ FollowsFailedTurn
    /\ TurnDone /\ outcome = "completed"
    /\ Len(received) >= 1
    /\ Len(messages) = 5


\* a step of a turn in progress: it goes on replying with the Transcript
\* untouched, or returns to idle with its two entries appended, or the
\* reset control is used (reset_chat is called)
TurnStaysOrReturns ==
    pc \in Busy =>
        \/ /\ pc' \in Busy
           /\ messages' = messages
           /\ turnBase' = turnBase
        \/ /\ pc' = "idle"
           /\ outcome' \in {"completed", "failed", "no_session"}
           /\ messages' = turnBase \o <<Message("user", prompt),
                                        Message("assistant", full_response)>>
        \/ resetResult' # "none"

\* C12: every turn stays in its own state machine until it returns to idle
\* through Sealed or Failed, having appended exactly its user entry and one
\* assistant entry directly after it.
C12_TurnReturnsWithTwoEntries == [][TurnStaysOrReturns]_vars


\* a run started without the reset control: with a chat stored its startup
\* path makes no reset_chat call and leaves chat and Transcript alone (a
\* prompt then adds its user entry); without one it calls reset_chat, and
\* from the empty session state a successful call gives Transcript = [welcome]
StartupResetsOnlyWithoutChat ==
    (LoadPage \/ SubmitPrompt \/ SubmitWhileReplying) =>
        /\ HasChat =>
              /\ clientCalls' = 0
              /\ resetResult' = "none"
              /\ gemini_chat' = gemini_chat
              /\ chatsCreated' = chatsCreated
              /\ \/ messages' = messages
                 \/ messages' = Append(messages, Message("user", input'))
        /\ ~HasChat => clientCalls' = 1
        /\ (session_keys = {} /\ resetResult' = "ok") =>
              /\ messages' = <<WelcomeMessage>>
              /\ "gemini_chat" \in session_keys'
              /\ chatsCreated' = 1

\* C13: the startup path resets only when no chat is stored: the first run
\* from the empty state gives Transcript = [welcome] when the reset
\* succeeds, and a later run that finds a chat neither replaces it nor
\* changes the Transcript.
C13_StartupResetOnlyOnce == [][StartupResetsOnlyWithoutChat]_vars

C13_Witness ==
    /\ HasChat
    /\ pc = "idle"
    /\ input = NoPrompt
    /\ resetResult = "none"
    /\ clientCalls = 0
    /\ abandonedAt = "idle"
    /\ Len(messages) = 3


\* a step leaves the Transcript alone, appends one entry at its end, or is a
\* successful reset_chat that replaces it by the welcome entry
TranscriptStep ==
    \/ messages' = messages
    \/ /\ Len(messages') = Len(messages) + 1
       /\ IsPrefix(messages, messages')
       /\ chatsCreated' = chatsCreated
    \/ /\ chatsCreated' = chatsCreated + 1
       /\ resetResult' = "ok"
       /\ messages' = <<WelcomeMessage>>

\* C14: between successful resets the Transcript only grows at its end, no
\* entry is changed, moved or removed; the only other change is the
\* replacement by the welcome entry on a successful reset.
C14_TranscriptAppendOnly == [][TranscriptStep]_vars

C14_Witness ==
    /\ chatsCreated = 2
    /\ Len(messages) = 3
    /\ pc = "idle"
    /\ messages[2].role = "user"
    /\ messages[3].role = "assistant"


AssistantEntries(ms) == {i \in 1..Len(ms) : ms[i].role = "assistant"}

Shown(p) ==
    IF p # <<>> /\ p[Len(p)] = CURSOR THEN SubSeq(p, 1, Len(p) - 1) ELSE p

\* a step of one and the same turn, from the user entry to line 136
SameTurnStep == pc \in Busy /\ turnBase' = turnBase

Grows ==
    /\ IsPrefix(full_response, full_response')
    /\ IsPrefix(Shown(placeholder), Shown(placeholder'))

\* the stored value is the last value of the accumulator
StoredIsAccumulator ==
    pc' = "idle" =>
        messages' = Append(messages, Message("assistant", full_response))

GrowsInEveryStep == SameTurnStep => (Grows /\ StoredIsAccumulator)

GrowsUnlessRaised ==
    SameTurnStep =>
        /\ StoredIsAccumulator
        /\ \/ Grows
           \/ /\ outcome # "failed"
              /\ outcome' = "failed"
              /\ full_response' \in ErrorTexts
              /\ placeholder' = full_response'

\* C16 as stated: while the assistant message is open, every value of the
\* accumulator that is shown or stored has the previous value as a prefix,
\* whatever the outcome of the stream.
C16_AccumulatorGrows == [][GrowsInEveryStep]_vars

\* C16 as amended: the accumulator grows by prefix extension while chunks
\* arrive and when the stream completes; when the send or the stream raises
\* it is replaced by the error text, and the stored entry is its last value.
C16_AccumulatorGrowsUnlessRaised == [][GrowsUnlessRaised]_vars

C16_Witness ==
    /\ pc = "rendered"
    /\ outcome = "failed"
    /\ Len(received) = 2
    /\ ~IsPrefix(Flatten(received), full_response)


\* C17: whenever no turn is in progress, a Transcript that exists has odd
\* length, starts with the assistant welcome entry, and then alternates
\* user, assistant, user, assistant.
C17_IdleTranscriptAlternates ==
    (pc = "idle" /\ HasTranscript) =>
        /\ Len(messages) % 2 = 1
        /\ messages[1] = WelcomeMessage
        /\ \A i \in 2..Len(messages) :
              messages[i].role = IF i % 2 = 0 THEN "user" ELSE "assistant"


\* C18: the chat is stored if and only if the Transcript is, and the
\* Transcript that is stored was started together with the stored chat;
\* also after client.chats.create raised inside reset_chat.
C18_ChatAndTranscriptTogether ==
    /\ HasChat <=> HasTranscript
    /\ HasChat <=> gemini_chat.id # 0
    /\ HasTranscript <=> messages # <<>>
    /\ HasTranscript => (messages[1] = WelcomeMessage /\ msgChat[1] = gemini_chat.id)

C18_Witness ==
    /\ resetResult = "create_raised"
    /\ "gemini_client" \in session_keys
    /\ ~HasChat
    /\ ~HasTranscript


\* a step of the user input handler (lines 104-136): the user entry of a
\* run that found a chat, the send, the chunks, the end of the stream, the
\* seal
HandlerStep ==
    \/ (SubmitPrompt \/ SubmitWhileReplying) /\ HasChat /\ pc' = "user_appended"
    \/ SendMessage
    \/ SendRaises
    \/ ChunkArrives
    \/ StreamEnds
    \/ StreamRaises
    \/ Seal

HandlerFrame ==
    HandlerStep =>
        /\ session_keys' = session_keys
        /\ gemini_client' = gemini_client
        /\ clientsBuilt' = clientsBuilt
        /\ gemini_chat'.id = gemini_chat.id
        /\ gemini_chat'.client = gemini_chat.client
        /\ chatsCreated' = chatsCreated
        /\ \/ messages' = messages
           \/ /\ Len(messages') = Len(messages) + 1
              /\ IsPrefix(messages, messages')

\* C19: a user turn never builds a client and never creates or replaces the
\* chat, whatever its outcome; of the session state it changes only the
\* Transcript, by appending.
C19_TurnKeepsClientAndChat == [][HandlerFrame]_vars

C19_Witness ==
    /\ TurnDone
    /\ outcome = "completed"
    /\ clientsBuilt = 1
    /\ chatsCreated = 1
    /\ gemini_chat.id = 1
    /\ Len(gemini_chat.history) = 2
    /\ Len(messages) = 5

====
